---- MODULE Spec2Model ----
(***************************************************************************)
(* Support / resistance and order-block detection of                       *)
(* backend/app/services/technical_analysis/support_resistance.py           *)
(* (class SupportResistanceDetector), as a state machine: a candle window  *)
(* df, the detector's sensitivity, and one call of one of its methods.     *)
(*                                                                         *)
(* Prices are integers in cents; every derived float (pivot level, bin     *)
(* edge, centroid, tolerance, strength) is an exact fraction [n, d], so    *)
(* that round(x, 2) is "the nearest whole number of cents".                *)
(***************************************************************************)
EXTENDS Integers, Sequences, FiniteSets, TLC

VARIABLES df, sensitivity, op, args, out

vars == <<df, sensitivity, op, args, out>>

(***************************************************************************)
(* Exact fractions standing for Python floats.                             *)
(***************************************************************************)
Abs(x) == IF x < 0 THEN -x ELSE x

Min(a, b) == IF a <= b THEN a ELSE b

Max(a, b) == IF a >= b THEN a ELSE b

RECURSIVE GCD(_, _)
GCD(a, b) == IF b = 0 THEN a ELSE GCD(b, a % b)

\* The fraction n/d in lowest terms with a positive denominator.
Frac(n, d) ==
    LET s == IF d < 0 THEN -1 ELSE 1
        g == GCD(Abs(n), Abs(d))
    IN  [n |-> (s * n) \div g, d |-> (s * d) \div g]

I(k) == [n |-> k, d |-> 1]

FNeg(a) == [n |-> -a.n, d |-> a.d]

\* a + b over the least common denominator (keeps the numerators small).
FAdd(a, b) ==
    LET g == GCD(a.d, b.d)
        l == (a.d \div g) * b.d
    IN  Frac(a.n * (l \div a.d) + b.n * (l \div b.d), l)

FSub(a, b) == FAdd(a, FNeg(b))

FMul(a, b) ==
    LET g1 == GCD(Abs(a.n), b.d)
        g2 == GCD(Abs(b.n), a.d)
    IN  Frac((a.n \div g1) * (b.n \div g2), (a.d \div g2) * (b.d \div g1))

\* a / k for an integer k > 0.
FDivI(a, k) == FMul(a, [n |-> 1, d |-> k])

\* a <= b, compared by integer parts and then by the reciprocals of the
\* fractional parts (Euclid), so that no product of denominators is formed.
RECURSIVE FLe(_, _)
FLe(a, b) ==
    LET qa == a.n \div a.d
        qb == b.n \div b.d
        ra == a.n % a.d
        rb == b.n % b.d
    IN  IF qa # qb THEN qa < qb
        ELSE IF ra = 0 THEN TRUE
        ELSE IF rb = 0 THEN FALSE
        ELSE FLe([n |-> b.d, d |-> rb], [n |-> a.d, d |-> ra])

FLt(a, b) == ~FLe(b, a)

FMin(a, b) == IF FLe(a, b) THEN a ELSE b

FMax(a, b) == IF FLe(a, b) THEN b ELSE a

\* The nearest integer, a tie going to the even neighbour (Python round).
RoundHalfEven(a) ==
    LET q == a.n \div a.d
        r == a.n % a.d
    IN  IF 2 * r < a.d THEN q
        ELSE IF 2 * r > a.d THEN q + 1
        ELSE IF q % 2 = 0 THEN q ELSE q + 1

\* round(x, 2) of a plain number: the nearest multiple of 1/100.
round2(x) == Frac(RoundHalfEven(FMul(I(100), x)), 100)

\* round(x, 2) of a price: prices are held in cents, so the nearest
\* multiple of 0.01 is the nearest whole number of cents.
round2_price(x) == I(RoundHalfEven(x))

(***************************************************************************)
(* Outcomes of a call.                                                     *)
(***************************************************************************)
Return(v) == [kind |-> "return", value |-> v]

Raise(e) == [kind |-> "raise", error |-> e]

NoCall == [kind |-> "none"]

\* The empty dict {} / the empty list [].
Empty == << >>

\* The sequence (or function) s itself, evaluated once as a whole rather
\* than element by element at each use.
Eager(s) == IF s = << >> THEN << >> ELSE s

\* A set of integers as the ascending sequence of its elements.
SetToSeq(S) ==
    LET rank == Eager([x \in S |-> Cardinality({y \in S : y <= x})])
    IN  Eager([k \in 1..Cardinality(S) |-> CHOOSE x \in S : rank[x] = k])

Candle(o, h, l, c, v) == [open |-> o, high |-> h, low |-> l, close |-> c, volume |-> v]

Last(s) == s[Len(s)]

(***************************************************************************)
(* detect_pivot_points(df, method)                                         *)
(***************************************************************************)
PivotMethods == {"standard", "fibonacci", "camarilla"}

\* Lines 128-134: the returned dict.
PivotDict(pivot, levels, method) ==
    [pivot |-> pivot, r1 |-> levels.r1, s1 |-> levels.s1, r2 |-> levels.r2,
     s2 |-> levels.s2, r3 |-> levels.r3, s3 |-> levels.s3, method |-> method]

\* r1 and s1 taken from the wrong extreme.
standard_levels_swapped(pivot, high, low, close) ==
    [r1 |-> FSub(FMul(I(2), pivot), high),
     s1 |-> FSub(FMul(I(2), pivot), low),
     r2 |-> FAdd(pivot, FSub(high, low)),
     s2 |-> FSub(pivot, FSub(high, low)),
     r3 |-> FAdd(high, FMul(I(2), FSub(pivot, low))),
     s3 |-> FSub(low, FMul(I(2), FSub(high, pivot)))]

standard_levels(pivot, high, low, close) ==
    [r1 |-> FSub(FMul(I(2), pivot), low),
     s1 |-> FSub(FMul(I(2), pivot), high),
     r2 |-> FAdd(pivot, FSub(high, low)),
     s2 |-> FSub(pivot, FSub(high, low)),
     r3 |-> FAdd(high, FMul(I(2), FSub(pivot, low))),
     s3 |-> FSub(low, FMul(I(2), FSub(high, pivot)))]

fibonacci_levels(pivot, high, low, close) ==
    [r1 |-> FAdd(pivot, FMul(Frac(382, 1000), FSub(high, low))),
     s1 |-> FSub(pivot, FMul(Frac(382, 1000), FSub(high, low))),
     r2 |-> FAdd(pivot, FMul(Frac(618, 1000), FSub(high, low))),
     s2 |-> FSub(pivot, FMul(Frac(618, 1000), FSub(high, low))),
     r3 |-> FAdd(pivot, FSub(high, low)),
     s3 |-> FSub(pivot, FSub(high, low))]

camarilla_levels(pivot, high, low, close) ==
    [r1 |-> FAdd(close, FDivI(FMul(FSub(high, low), Frac(11, 10)), 12)),
     s1 |-> FSub(close, FDivI(FMul(FSub(high, low), Frac(11, 10)), 12)),
     r2 |-> FAdd(close, FDivI(FMul(FSub(high, low), Frac(11, 10)), 6)),
     s2 |-> FSub(close, FDivI(FMul(FSub(high, low), Frac(11, 10)), 6)),
     r3 |-> FAdd(close, FDivI(FMul(FSub(high, low), Frac(11, 10)), 4)),
     s3 |-> FSub(close, FDivI(FMul(FSub(high, low), Frac(11, 10)), 4))]

\* iloc[0] in place of iloc[-1]: the levels of the first candle.
detect_pivot_points_first(w, method) ==
    IF Len(w) = 0 THEN Return(Empty)
    ELSE
    LET high  == I(w[1].high)
        low   == I(w[1].low)
        close == I(w[1].close)
        pivot == FDivI(FAdd(FAdd(high, low), close), 3)
    IN  IF method = "standard"
        THEN Return(PivotDict(pivot, standard_levels(pivot, high, low, close), method))
        ELSE IF method = "fibonacci"
        THEN Return(PivotDict(pivot, fibonacci_levels(pivot, high, low, close), method))
        ELSE IF method = "camarilla"
        THEN Return(PivotDict(pivot, camarilla_levels(pivot, high, low, close), method))
        ELSE Raise("ValueError")

detect_pivot_points(w, method) ==
    IF Len(w) = 0 THEN Return(Empty)
    ELSE
    LET high  == I(Last(w).high)
        low   == I(Last(w).low)
        close == I(Last(w).close)
        pivot == FDivI(FAdd(FAdd(high, low), close), 3)
    IN  IF method = "standard"
        THEN Return(PivotDict(pivot, standard_levels(pivot, high, low, close), method))
        ELSE IF method = "fibonacci"
        THEN Return(PivotDict(pivot, fibonacci_levels(pivot, high, low, close), method))
        ELSE IF method = "camarilla"
        THEN Return(PivotDict(pivot, camarilla_levels(pivot, high, low, close), method))
        ELSE Raise("ValueError")

(***************************************************************************)
(* detect_fractals(df, left_bars, right_bars)                              *)
(***************************************************************************)
Compare(comparator, a, b) ==
    IF comparator = "greater_equal" THEN a >= b ELSE a <= b

\* argrelextrema with mode='wrap' in place of the default: a shifted index
\* that leaves the array re-enters it at the other end.
argrelextrema_wrap(data, comparator, order) ==
    [i \in 1..Len(data) |->
        \A shift \in 1..order :
            /\ Compare(comparator, data[i], data[((i + shift - 1) % Len(data)) + 1])
            /\ Compare(comparator, data[i], data[((i - shift - 1) % Len(data)) + 1])]

\* scipy.signal.argrelextrema(data, comparator, order) with its default
\* mode='clip': a shifted index that leaves the array is clipped to the
\* nearest edge.  The result is the boolean mask over 1..Len(data).
argrelextrema(data, comparator, order) ==
    [i \in 1..Len(data) |->
        \A shift \in 1..order :
            /\ Compare(comparator, data[i], data[Min(i + shift, Len(data))])
            /\ Compare(comparator, data[i], data[Max(i - shift, 1)])]

\* data[indices].tolist(): the selected values in index order.
TakeIndices(data, mask) ==
    LET idx == SetToSeq({i \in 1..Len(data) : mask[i]})
    IN  Eager([k \in 1..Len(idx) |-> data[idx[k]]])

Column(w, name) == Eager([i \in 1..Len(w) |-> w[i][name]])

\* The length guard of lines 46-47 left out.
detect_fractals_unguarded(w, left_bars, right_bars) ==
    IF left_bars < 1 THEN Raise("ValueError")
    ELSE
    LET highs == Column(w, "high")
        lows  == Column(w, "low")
        resistance_indices == argrelextrema(highs, "greater_equal", left_bars)
        support_indices    == argrelextrema(lows, "less_equal", left_bars)
    IN  Return([support    |-> TakeIndices(lows, support_indices),
                resistance |-> TakeIndices(highs, resistance_indices)])

detect_fractals(w, left_bars, right_bars) ==
    IF Len(w) < left_bars + right_bars + 1
    THEN Return([support |-> << >>, resistance |-> << >>])
    ELSE IF left_bars < 1 THEN Raise("ValueError")
    ELSE
    LET highs == Column(w, "high")
        lows  == Column(w, "low")
        resistance_indices == argrelextrema(highs, "greater_equal", left_bars)
        support_indices    == argrelextrema(lows, "less_equal", left_bars)
    IN  Return([support    |-> TakeIndices(lows, support_indices),
                resistance |-> TakeIndices(highs, resistance_indices)])

(***************************************************************************)
(* detect_volume_profile(df, num_bins)                                     *)
(***************************************************************************)
SeqMin(s) == CHOOSE x \in {s[i] : i \in 1..Len(s)} : \A j \in 1..Len(s) : x <= s[j]

SeqMax(s) == CHOOSE x \in {s[i] : i \in 1..Len(s)} : \A j \in 1..Len(s) : x >= s[j]

\* sum(...) over s[lo..hi], halving the range.
RECURSIVE SumRange(_, _, _)
SumRange(s, lo, hi) ==
    IF lo > hi THEN 0
    ELSE IF lo = hi THEN s[lo]
    ELSE LET mid == (lo + hi) \div 2
         IN  SumRange(s, lo, mid) + SumRange(s, mid + 1, hi)

SeqSum(s) == SumRange(s, 1, Len(s))

\* np.linspace(start, stop, num) for num >= 0: num points, the first at
\* start and (for num >= 2) the last at stop, num - 1 equal steps apart.
linspace(start, stop, num) ==
    Eager([i \in 1..num |->
        IF num = 1 THEN I(start)
        ELSE FAdd(I(start), Frac((i - 1) * (stop - start), num - 1))])

\* list.sort(key=..., reverse=...) and sorted(): a stable sort of s by the
\* keys key[i] of its elements, descending when `reverse` (equal keys keep
\* their order either way).  An element's place is one more than the number
\* of elements that sort before it or tie with it from an earlier position.
SortStable(s, key, reverse) ==
    LET place == Eager([i \in 1..Len(s) |->
                    1 + Cardinality({j \in 1..Len(s) :
                            \/ IF reverse THEN FLt(key[i], key[j]) ELSE FLt(key[j], key[i])
                            \/ (j < i /\ FLe(key[i], key[j]) /\ FLe(key[j], key[i]))})])
    IN  Eager([p \in 1..Len(s) |-> s[CHOOSE i \in 1..Len(s) : place[i] = p]])

\* The sort ignoring reverse=True: always ascending.
SortLevels_ascending(levels, reverse) == SortStable(levels, levels, FALSE)

\* sorted(levels) / levels.sort(reverse=...): the levels are their own keys.
SortLevels(levels, reverse) == SortStable(levels, levels, reverse)

Take(s, k) == Eager([i \in 1..Min(k, Len(s)) |-> s[i]])

\* Lines 159-174: the bins that carry volume, in price order.
BinVolumes(w, bins) ==
    LET vol == Eager([i \in 1..Max(Len(bins) - 1, 0) |->
                    SeqSum([c \in 1..Len(w) |->
                        IF /\ FLe(I(w[c].low), bins[i + 1])
                           /\ FLe(bins[i], I(w[c].high))
                        THEN w[c].volume ELSE 0])])
        kept == SetToSeq({i \in 1..Len(vol) : vol[i] > 0})
    IN  Eager([k \in 1..Len(kept) |->
            [price  |-> FDivI(FAdd(bins[kept[k]], bins[kept[k] + 1]), 2),
             volume |-> vol[kept[k]],
             range  |-> <<bins[kept[k]], bins[kept[k] + 1]>>]])

\* The loop stopping before the level that reaches 70 % instead of after it.
ValueArea_stop_before(volume_profile, total_volume) ==
    LET volumes == Eager([i \in 1..Len(volume_profile) |-> volume_profile[i].volume])
        current_volume == Eager([i \in 0..Len(volume_profile) |-> SumRange(volumes, 1, i)])
        taken == {i \in 1..Len(volume_profile) :
                    \A j \in 1..i : 10 * current_volume[j] < 7 * total_volume}
    IN  Take(volume_profile, Cardinality(taken))

\* Lines 182-193: a level is taken while the volume taken so far is below
\* 70 % of the total; the loop breaks at the first level that is not.
ValueArea(volume_profile, total_volume) ==
    LET volumes == Eager([i \in 1..Len(volume_profile) |-> volume_profile[i].volume])
        current_volume == Eager([i \in 0..Len(volume_profile) |-> SumRange(volumes, 1, i)])
        taken == {i \in 1..Len(volume_profile) :
                    \A j \in 1..i : 10 * current_volume[j - 1] < 7 * total_volume}
    IN  Take(volume_profile, Cardinality(taken))

ValueAreaCap == 10

\* The sort of line 177 without reverse=True: lowest volume first.
SortByVolume_ascending(volume_profile) ==
    SortStable(volume_profile,
               Eager([i \in 1..Len(volume_profile) |-> I(volume_profile[i].volume)]), FALSE)

\* Line 177: volume_profile.sort(key=lambda x: x['volume'], reverse=True).
SortByVolume(volume_profile) ==
    SortStable(volume_profile,
               Eager([i \in 1..Len(volume_profile) |-> I(volume_profile[i].volume)]), TRUE)

\* Lines 180-201 for the sorted volume_profile and its total volume:
\* poc = volume_profile[0] if volume_profile else None, and line 195 reads
\* poc['price'], which raises TypeError when poc is None.
ProfileResult(volume_profile, total_volume) ==
    IF Len(volume_profile) = 0 THEN Raise("TypeError")
    ELSE Return([poc |-> volume_profile[1],
                 value_area |-> Take(ValueArea(volume_profile, total_volume), ValueAreaCap),
                 total_volume |-> total_volume])

\* Line 183: total_volume = sum(vp['volume'] for vp in volume_profile).
TotalVolume(volume_profile) ==
    SeqSum(Eager([i \in 1..Len(volume_profile) |-> volume_profile[i].volume]))

\* Lines 177-201 for the unsorted list of bins.
SortedProfileResult(volume_profile) ==
    ProfileResult(volume_profile, TotalVolume(volume_profile))

detect_volume_profile(w, num_bins) ==
    IF Len(w) = 0 THEN Return(Empty)
    ELSE IF num_bins < 0 THEN Raise("ValueError")
    ELSE SortedProfileResult(
            SortByVolume(
                BinVolumes(w, linspace(SeqMin(Column(w, "low")),
                                       SeqMax(Column(w, "high")), num_bins))))

(***************************************************************************)
(* cluster_levels(levels, eps)                                             *)
(***************************************************************************)
\* The eps=None default of cluster_levels.
None == [n |-> 0, d |-> 0]

FSeqMin(s) == CHOOSE x \in {s[i] : i \in 1..Len(s)} : \A j \in 1..Len(s) : FLe(x, s[j])

FSeqMax(s) == CHOOSE x \in {s[i] : i \in 1..Len(s)} : \A j \in 1..Len(s) : FLe(s[j], x)

RECURSIVE FSumRange(_, _, _)
FSumRange(s, lo, hi) ==
    IF lo > hi THEN I(0)
    ELSE IF lo = hi THEN s[lo]
    ELSE LET mid == (lo + hi) \div 2
         IN  FAdd(FSumRange(s, lo, mid), FSumRange(s, mid + 1, hi))

FSeqSum(s) == FSumRange(s, 1, Len(s))

\* The points reachable from `set` through neighbours.
RECURSIVE Reach(_, _)
Reach(near, set) ==
    LET next == set \cup {j \in DOMAIN near : \E k \in set : near[k][j]}
    IN  IF next = set THEN set ELSE Reach(near, next)

\* Clusters without chaining: a point joins the first point within eps of it.
DBSCAN_labels_direct(levels, eps) ==
    Eager([i \in 1..Len(levels) |->
        CHOOSE m \in 1..Len(levels) :
            /\ FLe(FSub(levels[i], levels[m]), eps) /\ FLe(FSub(levels[m], levels[i]), eps)
            /\ \A k \in 1..(m - 1) :
                ~(FLe(FSub(levels[i], levels[k]), eps) /\ FLe(FSub(levels[k], levels[i]), eps))])

\* DBSCAN(eps=eps, min_samples=1).fit(levels).labels_ : with min_samples=1
\* every point is a core point, so a cluster is a connected component of
\* the relation |x - y| <= eps; a point's label is the position of the
\* first point of its cluster.
DBSCAN_labels(levels, eps) ==
    LET near == Eager([i \in 1..Len(levels) |-> Eager([j \in 1..Len(levels) |->
                    /\ FLe(FSub(levels[i], levels[j]), eps)
                    /\ FLe(FSub(levels[j], levels[i]), eps)])])
    IN  Eager([i \in 1..Len(levels) |->
            LET c == Reach(near, {i})
            IN  CHOOSE m \in c : \A k \in c : m <= k])

\* The sum of the cluster's points, not divided by their number.
ClusterCenter_sum(levels, labels, label) ==
    LET idx == {i \in 1..Len(levels) : labels[i] = label}
        pts == Eager([i \in 1..Len(levels) |-> IF i \in idx THEN levels[i] ELSE I(0)])
    IN  FSeqSum(pts)

\* cluster_points.mean() of the points carrying `label`.
ClusterCenter(levels, labels, label) ==
    LET idx == {i \in 1..Len(levels) : labels[i] = label}
        pts == Eager([i \in 1..Len(levels) |-> IF i \in idx THEN levels[i] ELSE I(0)])
    IN  FDivI(FSeqSum(pts), Cardinality(idx))

cluster_levels(self, levels, eps) ==
    IF Len(levels) < 2 THEN Return(levels)
    ELSE
    LET price_range == FSub(FSeqMax(levels), FSeqMin(levels))
        eps1 == IF eps = None THEN FMul(price_range, self) ELSE eps
    IN  IF FLe(eps1, I(0)) THEN Raise("ValueError")
        ELSE
        LET labels == DBSCAN_labels(levels, eps1)
            labelset == SetToSeq({labels[i] : i \in 1..Len(levels)})
            clustered_levels ==
                Eager([k \in 1..Len(labelset) |-> ClusterCenter(levels, labels, labelset[k])])
        IN  Return(SortLevels(clustered_levels, FALSE))

(***************************************************************************)
(* _calculate_zone_strength(levels, df, zone_type)                         *)
(***************************************************************************)
MaxStrengthTouches == 5

\* Line 365 without the cap at 1.0.
zone_strength_uncapped(touches) == Frac(touches, MaxStrengthTouches)

\* Line 365: min(touches / 5, 1.0).
zone_strength(touches) == FMin(Frac(touches, MaxStrengthTouches), I(1))

\* Touches counted on the wrong column: highs for support, lows for
\* resistance.
_calculate_zone_strength_swapped(self, levels, w, zone_type) ==
    LET tolerance == FMul(Frac(SeqSum(Column(w, "close")), Len(w)), self)
        Touches(level) ==
            Cardinality({c \in 1..Len(w) :
                LET x == IF zone_type = "support" THEN I(w[c].high) ELSE I(w[c].low)
                IN  /\ FLe(FSub(level, tolerance), x)
                    /\ FLe(x, FAdd(level, tolerance))})
    IN  Eager([k \in 1..Len(levels) |->
            LET touches  == IF Len(w) = 0 THEN 0 ELSE Touches(levels[k])
                strength == zone_strength(touches)
            IN  [level    |-> round2_price(levels[k]),
                 touches  |-> touches,
                 strength |-> round2(strength),
                 type     |-> zone_type]])

_calculate_zone_strength(self, levels, w, zone_type) ==
    LET tolerance == FMul(Frac(SeqSum(Column(w, "close")), Len(w)), self)
        Touches(level) ==
            Cardinality({c \in 1..Len(w) :
                LET x == IF zone_type = "support" THEN I(w[c].low) ELSE I(w[c].high)
                IN  /\ FLe(FSub(level, tolerance), x)
                    /\ FLe(x, FAdd(level, tolerance))})
    IN  Eager([k \in 1..Len(levels) |->
            LET touches  == IF Len(w) = 0 THEN 0 ELSE Touches(levels[k])
                strength == zone_strength(touches)
            IN  [level    |-> round2_price(levels[k]),
                 touches  |-> touches,
                 strength |-> round2(strength),
                 type     |-> zone_type]])

(***************************************************************************)
(* detect_zones(df, current_price, lookback)                               *)
(***************************************************************************)
\* df.tail(n): the last n rows; for n < 0 all rows but the first -n.
tail(w, n) ==
    LET k == IF n >= 0 THEN Min(n, Len(w)) ELSE Max(Len(w) + n, 0)
    IN  Eager([i \in 1..k |-> w[Len(w) - k + i]])

DefaultLeftBars == 5

DefaultRightBars == 5

DefaultNumBins == 50

ZonesCap == 10

\* [s for s in levels if s < price] (lines 285, 305).
LevelsBelow(levels, price) ==
    TakeIndices(levels, [i \in 1..Len(levels) |-> FLt(levels[i], price)])

\* [r for r in levels if r > price] (lines 300, 306).
LevelsAbove(levels, price) ==
    TakeIndices(levels, [i \in 1..Len(levels) |-> FLt(price, levels[i])])

\* v['price'] for v in volume_profile['value_area'] (lines 284, 299).
Prices(value_area) == Eager([i \in 1..Len(value_area) |-> value_area[i].price])

IntsToFracs(s) == Eager([i \in 1..Len(s) |-> I(s[i])])

\* Lines 312-333: the sorted, capped and rated zones of the two clustered
\* pools, or the exception clustering raised.
ZonesResult(self, df_lookback, current_price, pivots, vp, clustered_support, clustered_resistance) ==
    IF clustered_support.kind = "raise" THEN clustered_support
    ELSE IF clustered_resistance.kind = "raise" THEN clustered_resistance
    ELSE Return(
        [support |-> _calculate_zone_strength(self,
                        Take(SortLevels(clustered_support.value, TRUE), ZonesCap),
                        df_lookback, "support"),
         resistance |-> _calculate_zone_strength(self,
                        Take(SortLevels(clustered_resistance.value, FALSE), ZonesCap),
                        df_lookback, "resistance"),
         current_price |-> current_price,
         pivots |-> [standard  |-> pivots["standard"].value,
                     fibonacci |-> pivots["fibonacci"].value,
                     camarilla |-> pivots["camarilla"].value],
         volume_profile |-> vp])

\* Lines 275-287 and 305: support_below, the support levels of the three
\* sources that lie below current_price.
SupportPool(fractals, pivots, vp, current_price) ==
    LET ps == pivots["standard"].value
        pf == pivots["fibonacci"].value
        pc == pivots["camarilla"].value
    IN  LevelsBelow(
            IntsToFracs(fractals.value.support)
            \o <<ps.s1, ps.s2, ps.s3, pf.s1, pf.s2, pf.s3, pc.s1, pc.s2, pc.s3>>
            \o LevelsBelow(Prices(vp.value_area), current_price),
            current_price)

\* Lines 290-302 and 306: resistance_above.
ResistancePool(fractals, pivots, vp, current_price) ==
    LET ps == pivots["standard"].value
        pf == pivots["fibonacci"].value
        pc == pivots["camarilla"].value
    IN  LevelsAbove(
            IntsToFracs(fractals.value.resistance)
            \o <<ps.r1, ps.r2, ps.r3, pf.r1, pf.r2, pf.r3, pc.r1, pc.r2, pc.r3>>
            \o LevelsAbove(Prices(vp.value_area), current_price),
            current_price)

\* Lines 274-309 for the three sources: the two pools of levels, filtered by
\* the side of current_price they lie on, and clustered.
ZonesOfSources(self, df_lookback, current_price, fractals, pivots, volume_profile) ==
    IF volume_profile.kind = "raise" THEN volume_profile
    ELSE IF pivots["standard"].value = Empty THEN Raise("KeyError")
    ELSE ZonesResult(self, df_lookback, current_price, pivots, volume_profile.value,
            cluster_levels(self,
                SupportPool(fractals, pivots, volume_profile.value, current_price), None),
            cluster_levels(self,
                ResistancePool(fractals, pivots, volume_profile.value, current_price), None))

\* Lines 264-272 for the window df_lookback: the fractals, the pivots of the
\* three methods and the volume profile.
ZonesOfWindow(self, df_lookback, current_price) ==
    ZonesOfSources(self, df_lookback, current_price,
        detect_fractals(df_lookback, DefaultLeftBars, DefaultRightBars),
        [method \in PivotMethods |-> detect_pivot_points(df_lookback, method)],
        detect_volume_profile(df_lookback, DefaultNumBins))

\* Lines 258-259: if len(df) < lookback: lookback = len(df).
ClampLookback(w, lookback) == IF Len(w) < lookback THEN Len(w) ELSE lookback

\* The slice of line 261 left out: the whole window is analysed.
detect_zones_whole_window(self, w, current_price, lookback0) ==
    ZonesOfWindow(self, w, current_price)

detect_zones(self, w, current_price, lookback0) ==
    ZonesOfWindow(self, tail(w, ClampLookback(w, lookback0)), current_price)

(***************************************************************************)
(* detect_order_blocks(df, lookback)                                       *)
(***************************************************************************)
OrderBlockMargin == 5

OrderBlocksCap == 10

\* The bearish test a copy of the bullish one: a candle that qualifies is
\* added as a bullish and as a bearish block.
BlocksAt_same_test(w, df_lookback, i) ==
    LET current == df_lookback[i]
        next_candle == df_lookback[i + 1]
        volumes == Column(df_lookback, "volume")
        high_volume == 2 * Len(df_lookback) * current.volume > 3 * SeqSum(volumes)
        Block(type, move) ==
            [type |-> type, top |-> current.high, bottom |-> current.low,
             timestamp |-> Len(w) - Len(df_lookback) + i,
             strength |-> FMul(FMin(Frac(move, current.close), Frac(1, 10)), I(10))]
        qualifies == /\ 100 * next_candle.close > 102 * current.close
                     /\ current.close > current.open
                     /\ high_volume
    IN  IF qualifies
        THEN <<Block("bullish", next_candle.close - current.close),
               Block("bearish", next_candle.close - current.close)>>
        ELSE << >>

\* The strength without the min(..., 0.1) of lines 412 and 425.
BlocksAt_unsaturated(w, df_lookback, i) ==
    LET current == df_lookback[i]
        next_candle == df_lookback[i + 1]
        volumes == Column(df_lookback, "volume")
        high_volume == 2 * Len(df_lookback) * current.volume > 3 * SeqSum(volumes)
        Block(type, move) ==
            [type |-> type, top |-> current.high, bottom |-> current.low,
             timestamp |-> Len(w) - Len(df_lookback) + i,
             strength |-> FMul(Frac(move, current.close), I(10))]
        bullish == IF /\ 100 * next_candle.close > 102 * current.close
                      /\ current.close > current.open
                      /\ high_volume
                   THEN <<Block("bullish", next_candle.close - current.close)>>
                   ELSE << >>
        bearish == IF /\ 100 * next_candle.close < 98 * current.close
                      /\ current.close < current.open
                      /\ high_volume
                   THEN <<Block("bearish", current.close - next_candle.close)>>
                   ELSE << >>
    IN  bullish \o bearish

\* The two tests without their volume condition.
BlocksAt_no_volume_test(w, df_lookback, i) ==
    LET current == df_lookback[i]
        next_candle == df_lookback[i + 1]
        Block(type, move) ==
            [type |-> type, top |-> current.high, bottom |-> current.low,
             timestamp |-> Len(w) - Len(df_lookback) + i,
             strength |-> FMul(FMin(Frac(move, current.close), Frac(1, 10)), I(10))]
        bullish == IF /\ 100 * next_candle.close > 102 * current.close
                      /\ current.close > current.open
                   THEN <<Block("bullish", next_candle.close - current.close)>>
                   ELSE << >>
        bearish == IF /\ 100 * next_candle.close < 98 * current.close
                      /\ current.close < current.open
                   THEN <<Block("bearish", current.close - next_candle.close)>>
                   ELSE << >>
    IN  bullish \o bearish

\* The blocks candle i of df_lookback adds (lines 398-426): the bullish
\* test and then, independently, the bearish test.  Positions count from 1,
\* so Python's range(2, len - 2) is 3..Len - 2.  A block's timestamp
\* (current.name, the row's index label) is the row's position in df.
BlocksAt(w, df_lookback, i) ==
    LET current == df_lookback[i]
        next_candle == df_lookback[i + 1]
        volumes == Column(df_lookback, "volume")
        high_volume == 2 * Len(df_lookback) * current.volume > 3 * SeqSum(volumes)
        Block(type, move) ==
            [type |-> type, top |-> current.high, bottom |-> current.low,
             timestamp |-> Len(w) - Len(df_lookback) + i,
             strength |-> FMul(FMin(Frac(move, current.close), Frac(1, 10)), I(10))]
        bullish == IF /\ 100 * next_candle.close > 102 * current.close
                      /\ current.close > current.open
                      /\ high_volume
                   THEN <<Block("bullish", next_candle.close - current.close)>>
                   ELSE << >>
        bearish == IF /\ 100 * next_candle.close < 98 * current.close
                      /\ current.close < current.open
                      /\ high_volume
                   THEN <<Block("bearish", current.close - next_candle.close)>>
                   ELSE << >>
    IN  bullish \o bearish

RECURSIVE ConcatRange(_, _, _)
ConcatRange(f, lo, hi) ==
    IF lo > hi THEN << >>
    ELSE IF lo = hi THEN f[lo]
    ELSE LET mid == (lo + hi) \div 2
         IN  ConcatRange(f, lo, mid) \o ConcatRange(f, mid + 1, hi)

\* Lines 394-426: the blocks the scan appends to order_blocks, in scan
\* order, before the sort of line 429 and the cut of line 432.
ScanBlocks(w, df_lookback) ==
    ConcatRange([i \in 3..(Len(df_lookback) - 2) |-> BlocksAt(w, df_lookback, i)],
                3, Len(df_lookback) - 2)

QualifyingBlocks(w, lookback) == ScanBlocks(w, tail(w, lookback))

\* Line 429: order_blocks.sort(key=lambda x: x['strength'], reverse=True).
SortByStrength(order_blocks) ==
    SortStable(order_blocks,
               Eager([i \in 1..Len(order_blocks) |-> order_blocks[i].strength]), TRUE)

\* The guard of line 391 without its margin of 5.
detect_order_blocks_no_margin(w, lookback) ==
    IF Len(w) < lookback THEN Return(<< >>)
    ELSE
    LET df_lookback == tail(w, lookback)
        found == [i \in 3..(Len(df_lookback) - 2) |-> BlocksAt(w, df_lookback, i)]
        order_blocks == ConcatRange(found, 3, Len(df_lookback) - 2)
    IN  Return(Take(SortByStrength(order_blocks), OrderBlocksCap))

detect_order_blocks(w, lookback) ==
    IF Len(w) < lookback + OrderBlockMargin THEN Return(<< >>)
    ELSE
    LET df_lookback == tail(w, lookback)
        found == [i \in 3..(Len(df_lookback) - 2) |-> BlocksAt(w, df_lookback, i)]
        order_blocks == ConcatRange(found, 3, Len(df_lookback) - 2)
    IN  Return(Take(SortByStrength(order_blocks), OrderBlocksCap))

(***************************************************************************)
(* The state machine.  A behaviour is one window handed to one detector    *)
(* and one call on it: op names the method called, args its arguments and  *)
(* out what the call returned or raised.                                   *)
(***************************************************************************)
DefaultSensitivity == Frac(1, 50)

Idle == op = "none" /\ args = << >> /\ out = NoCall

\* All windows of at most maxlen candles drawn from `candles`.
Windows(candles, maxlen) == UNION {[1..n -> candles] : n \in 0..maxlen}

(***************************************************************************)
(* Pivot points: windows of candles with low <= close <= high.             *)
(***************************************************************************)
MaxPivotPrice == 3

MaxPivotLen == 2

PivotCandles ==
    {Candle(c, h, l, c, 1) : <<l, c, h>> \in
        {t \in (1..MaxPivotPrice) \X (1..MaxPivotPrice) \X (1..MaxPivotPrice) :
            t[1] <= t[2] /\ t[2] <= t[3]}}

\* A method string outside the three the docstring names.
UnknownMethods == {"woodie"}

\* The candle (H=152, L=150, C=151).
ScenarioCandle == Candle(151, 152, 150, 151, 1)

InitPivot ==
    /\ df \in Windows(PivotCandles \cup {ScenarioCandle}, MaxPivotLen)
    /\ sensitivity = DefaultSensitivity
    /\ Idle

DetectPivotPoints ==
    /\ op = "none"
    /\ \E method \in PivotMethods \cup UnknownMethods :
        /\ op' = "detect_pivot_points"
        /\ args' = <<method>>
        /\ out' = detect_pivot_points(df, method)
    /\ UNCHANGED <<df, sensitivity>>

SpecPivot == InitPivot /\ [][DetectPivotPoints]_vars

PivotCall(method) == op = "detect_pivot_points" /\ args = <<method>>

\* C3 as stated: for every non-empty window the standard method gives
\* s1 < pivot < r1, a candle with high = low = close included.
C3_StrictOrder ==
    (PivotCall("standard") /\ Len(df) > 0) =>
        /\ out.kind = "return"
        /\ FLt(out.value.s1, out.value.pivot)
        /\ FLt(out.value.pivot, out.value.r1)

\* C3 amended: for every non-empty window whose last candle has high > low
\* the standard method gives s1 < pivot < r1; when high = low (= close) the
\* strict order fails: s1 = r1, both being 2 * pivot - high.
C3_OrderUnlessFlat ==
    (PivotCall("standard") /\ Len(df) > 0) =>
        /\ out.kind = "return"
        /\ Last(df).high > Last(df).low =>
            /\ FLt(out.value.s1, out.value.pivot)
            /\ FLt(out.value.pivot, out.value.r1)
        /\ Last(df).high = Last(df).low =>
            /\ out.value.s1 = out.value.r1
            /\ ~(FLt(out.value.s1, out.value.pivot) /\ FLt(out.value.pivot, out.value.r1))

\* A standard call on a window whose last candle is flat, with s1 = r1.
C3_Witness ==
    /\ PivotCall("standard")
    /\ Len(df) > 0
    /\ Last(df).high = Last(df).low
    /\ out.kind = "return"
    /\ out.value.s1 = out.value.r1

\* C10: an unknown method never gets a result: the call raises the
\* invalid-argument error (ValueError) whatever the window, empty or not.
C10_UnknownMethodRaises ==
    (op = "detect_pivot_points" /\ args[1] \notin PivotMethods) =>
        out = Raise("ValueError")

(***************************************************************************)
(* Fractals: rising windows, the flat window with one spike low, and all   *)
(* short windows over a few candles.                                       *)
(***************************************************************************)
MaxRisingLen == 13

ScenarioLen == 250

MaxSpikeLen == 12

MaxFractalLen == 4

\* n candles, each `step` above the one before.
RisingWindow(n, step) ==
    [i \in 1..n |-> Candle(100 + step * i - 1, 100 + step * i + 1,
                           100 + step * i - 2, 100 + step * i, 10)]

\* n candles (O=100, H=101, L=99, C=100), the one at index 7 (counted
\* from 0) with low 80.
FlatSpikeWindow(n) ==
    [i \in 1..n |-> IF i = 8 THEN Candle(100, 101, 80, 100, 10)
                    ELSE Candle(100, 101, 99, 100, 10)]

FractalCandles == {Candle(2, 3, 1, 2, 1), Candle(3, 4, 2, 3, 1), Candle(4, 5, 3, 4, 1)}

FractalBars == {1, 2, DefaultLeftBars}

InitFractal ==
    /\ df \in {RisingWindow(n, step) : n \in 1..MaxRisingLen \cup {ScenarioLen}, step \in {1, 2}}
              \cup {FlatSpikeWindow(n) : n \in 8..MaxSpikeLen}
              \cup Windows(FractalCandles, MaxFractalLen)
    /\ sensitivity = DefaultSensitivity
    /\ Idle

DetectFractals ==
    /\ op = "none"
    /\ \E left_bars \in FractalBars, right_bars \in FractalBars :
        /\ op' = "detect_fractals"
        /\ args' = <<left_bars, right_bars>>
        /\ out' = detect_fractals(df, left_bars, right_bars)
    /\ UNCHANGED <<df, sensitivity>>

SpecFractal == InitFractal /\ [][DetectFractals]_vars

DefaultFractalCall ==
    op = "detect_fractals" /\ args = <<DefaultLeftBars, DefaultRightBars>>

StrictlyRising(w) ==
    \A i \in 1..(Len(w) - 1) : w[i].high < w[i + 1].high /\ w[i].close < w[i + 1].close

InSeq(x, s) == \E i \in 1..Len(s) : s[i] = x

\* C7: on a window whose highs and closes rise strictly from the first
\* candle to the last, detect_fractals with the default bars returns an
\* empty resistance list.
C7_RisingNoResistance ==
    (DefaultFractalCall /\ StrictlyRising(df)) =>
        out.kind = "return" /\ out.value.resistance = << >>

\* C8 as stated: on the 10-candle flat window with the spike low 80 at
\* index 7, detect_fractals with the default bars returns a support list
\* that contains 80.
C8_SpikeFoundInTen ==
    (DefaultFractalCall /\ df = FlatSpikeWindow(10)) =>
        out.kind = "return" /\ InSeq(80, out.value.support)

\* C8 amended: on that 10-candle window both lists are empty, because
\* 10 < left_bars + right_bars + 1 = 11; on the same flat window with 11 or
\* more candles (spike low 80 at index 7) the support list contains 80.
C8_SpikeFoundFromEleven ==
    \A n \in 8..MaxSpikeLen :
        (DefaultFractalCall /\ df = FlatSpikeWindow(n)) =>
            /\ out.kind = "return"
            /\ n <= 10 => out.value = [support |-> << >>, resistance |-> << >>]
            /\ n >= 11 => InSeq(80, out.value.support)

C8_Witness ==
    /\ DefaultFractalCall
    /\ df = FlatSpikeWindow(10)
    /\ out = Return([support |-> << >>, resistance |-> << >>])

(***************************************************************************)
(* Volume profile: short windows of candles with low <= high and volume    *)
(* 0, 1 or 2, and a bin count from NumBins.                                *)
(***************************************************************************)
MaxVolumePrice == 3

MaxVolumeLen == 2

VolumeCandles ==
    {Candle(l, h, l, h, v) : <<l, h, v>> \in
        {t \in (1..MaxVolumePrice) \X (1..MaxVolumePrice) \X (0..2) : t[1] <= t[2]}}

NumBins == {-1, 0, 1, 2, 3, 4, 16}

InitVolume ==
    /\ df \in Windows(VolumeCandles, MaxVolumeLen)
    /\ sensitivity = DefaultSensitivity
    /\ Idle

DetectVolumeProfile ==
    /\ op = "none"
    /\ \E num_bins \in NumBins :
        /\ op' = "detect_volume_profile"
        /\ args' = <<num_bins>>
        /\ out' = detect_volume_profile(df, num_bins)
    /\ UNCHANGED <<df, sensitivity>>

SpecVolume == InitVolume /\ [][DetectVolumeProfile]_vars

\* The call returned a profile (the dict of lines 197-201).
ProfileReturned ==
    op = "detect_volume_profile" /\ out.kind = "return" /\ out.value # Empty

ValueAreaVolume(profile) ==
    SeqSum([i \in 1..Len(profile.value_area) |-> profile.value_area[i].volume])

\* C4: in every returned profile the value-area bins sum to at most
\* total_volume, and to at least 70 % of it unless value_area has exactly
\* 10 bins (the cap).
C4_ValueAreaShare ==
    ProfileReturned =>
        /\ ValueAreaVolume(out.value) <= out.value.total_volume
        /\ Len(out.value.value_area) # ValueAreaCap =>
            10 * ValueAreaVolume(out.value) >= 7 * out.value.total_volume

\* A profile whose value area stops short of the whole profile.
C4_Witness ==
    /\ ProfileReturned
    /\ Len(out.value.value_area) < ValueAreaCap
    /\ ValueAreaVolume(out.value) < out.value.total_volume
    /\ 10 * ValueAreaVolume(out.value) >= 7 * out.value.total_volume

\* C9: with num_bins = 1 on a non-empty window whose lowest low equals its
\* highest high the call does not raise (it returns a single-bin or an
\* empty profile).
C9_OneBinNoRaise ==
    (/\ op = "detect_volume_profile"
     /\ args = <<1>>
     /\ Len(df) > 0
     /\ SeqMin(Column(df, "low")) = SeqMax(Column(df, "high"))) =>
        out.kind = "return"

(***************************************************************************)
(* Clustering: short lists of whole-number levels, clustered and then      *)
(* clustered again.                                                        *)
(***************************************************************************)
MaxLevel == 4

MaxLevels == 4

Sensitivities == {Frac(1, 50), Frac(1, 4), Frac(1, 2)}

LevelLists == UNION {[1..n -> {I(k) : k \in 0..MaxLevel}] : n \in 0..MaxLevels}

InitCluster ==
    /\ df = << >>
    /\ sensitivity \in Sensitivities
    /\ Idle

ClusterLevels ==
    /\ op = "none"
    /\ \E levels \in LevelLists :
        /\ op' = "cluster_levels"
        /\ args' = <<levels>>
        /\ out' = cluster_levels(sensitivity, levels, None)
    /\ UNCHANGED <<df, sensitivity>>

\* cluster_levels called on the centroids the first call returned.
ReclusterLevels ==
    /\ op = "cluster_levels"
    /\ out.kind = "return"
    /\ op' = "recluster_levels"
    /\ args' = <<out.value>>
    /\ out' = cluster_levels(sensitivity, out.value, None)
    /\ UNCHANGED <<df, sensitivity>>

NextCluster == ClusterLevels \/ ReclusterLevels

SpecCluster == InitCluster /\ [][NextCluster]_vars

\* C5: clustering the centroids that cluster_levels returned, with the same
\* sensitivity and eps recomputed from them, returns the same centroids.
C5_ReclusterSame ==
    op = "recluster_levels" => out = Return(args[1])

\* The first call merged some levels and left several centroids, which the
\* second call returned unchanged.
C5_Witness ==
    /\ op = "recluster_levels"
    /\ Len(args[1]) >= 2
    /\ \E i \in 1..Len(args[1]) : args[1][i].d > 1
    /\ out = Return(args[1])

(***************************************************************************)
(* Order blocks: quiet windows (O=50, H=51, L=49, C=50, V=10) with two     *)
(* adjacent candles replaced by a move.                                    *)
(***************************************************************************)
MaxBlockLen == 11

QuietCandle == Candle(50, 51, 49, 50, 10)

MoveCandle(close, volume) == Candle(50, Max(50, close) + 1, Min(50, close) - 1, close, volume)

MoveCloses == {44, 47, 50, 52, 56}

\* n candles, quiet but for a at position p and b right after it.
MoveWindow(n, p, a, b) ==
    [i \in 1..n |-> IF i = p THEN a ELSE IF i = p + 1 THEN b ELSE QuietCandle]

BlockWindows ==
    {MoveWindow(n, p, MoveCandle(c1, v1), MoveCandle(c2, 10)) :
        n \in 0..MaxBlockLen, p \in 1..MaxBlockLen,
        c1 \in MoveCloses, v1 \in {10, 40}, c2 \in MoveCloses}

DefaultBlockLookback == 50

BlockLookbacks == {-1, 0, 3, 5, 6, DefaultBlockLookback}

MaxPairs == 12

\* A candle without volume that closes at c.
FollowCandle(c) == Candle(c, c + 1, c - 1, c, 0)

\* The p-th pair of a pairs window: for odd p a rising candle (O=99, C=100,
\* V=40) followed by a close 3 to 12 % higher, for even p a falling candle
\* (O=101, C=100, V=40) followed by a close 3 to 12 % lower.
PairCandle(p, first) ==
    LET move == 3 + 3 * ((p \div 2) % 4)
    IN  IF p % 2 = 1
        THEN IF first THEN Candle(99, 101, 98, 100, 40) ELSE FollowCandle(100 + move)
        ELSE IF first THEN Candle(101, 102, 99, 100, 40) ELSE FollowCandle(100 - move)

\* DefaultBlockLookback + 5 candles without volume at 100, with k pairs
\* put in from the third candle of the last DefaultBlockLookback on.
PairsWindow(k) ==
    [i \in 1..(DefaultBlockLookback + OrderBlockMargin) |->
        LET j == i - OrderBlockMargin - 2
        IN  IF j >= 1 /\ j <= 2 * k
            THEN PairCandle((j + 1) \div 2, j % 2 = 1)
            ELSE FollowCandle(100)]

PairsWindows == {PairsWindow(k) : k \in 0..MaxPairs}

\* Ten quiet candles but for the eighth, rising (O=49, C=50) or falling
\* (O=51, C=50) with volume 40, and the ninth, which closes 8 % or exactly
\* 10 % further in that direction.
SaturationWindows ==
    {MoveWindow(10, 8, Candle(49, 51, 48, 50, 40), MoveCandle(c2, 10)) : c2 \in {54, 55}}
    \cup {MoveWindow(10, 8, Candle(51, 52, 49, 50, 40), MoveCandle(c2, 10)) : c2 \in {45, 46}}

InitBlocks ==
    /\ df \in BlockWindows \cup PairsWindows \cup SaturationWindows
    /\ sensitivity = DefaultSensitivity
    /\ Idle

DetectOrderBlocks ==
    /\ op = "none"
    /\ \E lookback \in BlockLookbacks :
        /\ op' = "detect_order_blocks"
        /\ args' = <<lookback>>
        /\ out' = detect_order_blocks(df, lookback)
    /\ UNCHANGED <<df, sensitivity>>

SpecBlocks == InitBlocks /\ [][DetectOrderBlocks]_vars

\* C6: detect_order_blocks returns [] and does not raise when
\* len(window) < lookback + 5; a block appears in the result only when
\* len(window) >= lookback + 5.
C6_ShortWindowNoBlocks ==
    op = "detect_order_blocks" =>
        /\ Len(df) < args[1] + 5 => out = Return(<< >>)
        /\ (out.kind = "return" /\ out.value # << >>) => Len(df) >= args[1] + 5

\* A window at least lookback long whose lookback slice holds a qualifying
\* candle, and yet too short: the call returned [].
C6_Witness ==
    /\ op = "detect_order_blocks"
    /\ Len(df) >= args[1]
    /\ Len(df) < args[1] + 5
    /\ \E i \in 3..(args[1] - 2) : BlocksAt(df, tail(df, args[1]), i) # << >>
    /\ out = Return(<< >>)

(***************************************************************************)
(* Zones: windows made of a run of one candle followed by a run of         *)
(* another, the candles being an ordinary one, a flat one (high = low =    *)
(* close) and one without volume.                                          *)
(***************************************************************************)
MaxZoneLen == 11

ZoneCandles ==
    {Candle(10, 13, 10, 11, 7), Candle(10, 10, 10, 10, 5), Candle(11, 12, 9, 10, 0)}

\* k candles a followed by m candles b.
RunWindow(a, k, b, m) == [i \in 1..(k + m) |-> IF i <= k THEN a ELSE b]

ZoneWindows ==
    {RunWindow(t[1], t[2], t[3], t[4]) : t \in
        {t \in ZoneCandles \X (0..MaxZoneLen) \X ZoneCandles \X (0..MaxZoneLen) :
            t[2] + t[4] <= MaxZoneLen}}

ZonePrices == {I(10), I(12)}

DefaultZoneLookback == 100

ZoneLookbacks == {0, 3, DefaultZoneLookback}

InitZones ==
    /\ df \in ZoneWindows
    /\ sensitivity = DefaultSensitivity
    /\ Idle

DetectZones ==
    /\ op = "none"
    /\ \E current_price \in ZonePrices, lookback \in ZoneLookbacks :
        /\ op' = "detect_zones"
        /\ args' = <<current_price, lookback>>
        /\ out' = detect_zones(sensitivity, df, current_price, lookback)
    /\ UNCHANGED <<df, sensitivity>>

SpecZones == InitZones /\ [][DetectZones]_vars

ZonesReturned == op = "detect_zones" /\ out.kind = "return"

ZonesOf(result) ==
    {result.support[i] : i \in 1..Len(result.support)}
    \cup {result.resistance[i] : i \in 1..Len(result.resistance)}

\* C1: whenever detect_zones returns, every support zone's reported
\* (rounded) level is strictly below current_price and every resistance
\* zone's reported level strictly above it.
C1_LevelsSplitByPrice ==
    ZonesReturned =>
        /\ \A i \in 1..Len(out.value.support) :
                FLt(out.value.support[i].level, args[1])
        /\ \A i \in 1..Len(out.value.resistance) :
                FLt(args[1], out.value.resistance[i].level)

\* C2: every zone has 0 <= strength <= 1, strength = 1 when it has 5 or
\* more touches and strength < 1 when it has fewer.
C2_StrengthRange ==
    ZonesReturned =>
        \A z \in ZonesOf(out.value) :
            /\ FLe(I(0), z.strength)
            /\ FLe(z.strength, I(1))
            /\ z.touches >= 5 => z.strength = I(1)
            /\ z.touches < 5 => FLt(z.strength, I(1))

\* One result with a zone touched more than 5 times and a zone touched
\* between 1 and 4 times.
C2_Witness ==
    /\ ZonesReturned
    /\ \E z \in ZonesOf(out.value) : z.touches > 5 /\ z.strength = I(1)
    /\ \E z \in ZonesOf(out.value) :
            z.touches \in 1..4 /\ z.strength = Frac(z.touches, 5)

\* C11: on every window shorter than some component's minimum (fewer than
\* left_bars + right_bars + 1 = 11 candles, the empty window and a
\* one-candle window included) detect_zones returns a result and does not
\* raise.
C11_ShortWindowReturns ==
    (op = "detect_zones" /\ Len(df) < DefaultLeftBars + DefaultRightBars + 1) =>
        out.kind = "return"

\* C12: on the empty window detect_volume_profile returns a record of the
\* same three fields as for a non-empty window, with poc null (None), an
\* empty value_area and total_volume 0.
C12_EmptyWindowProfile ==
    (op = "detect_volume_profile" /\ Len(df) = 0) =>
        /\ out.kind = "return"
        /\ out.value # Empty
        /\ DOMAIN out.value = {"poc", "value_area", "total_volume"}
        /\ out.value.poc = None
        /\ out.value.value_area = << >>
        /\ out.value.total_volume = 0

\* A window of one candle with positive volume and low < high: the candle
\* overlaps every bin of [low, high], so every bin carries its volume and
\* total_volume is that volume times the number of bins.
OneCandleOverAllBins ==
    /\ op = "detect_volume_profile"
    /\ Len(df) = 1
    /\ df[1].volume > 0
    /\ df[1].low < df[1].high
    /\ args[1] >= 1

\* C13: [min(low), max(high)] is cut into exactly num_bins equal-width
\* bins: on a window whose candle overlaps every bin with positive volume
\* the profile holds num_bins bins, each (max - min) / num_bins wide.
C13_NumBinsBins ==
    OneCandleOverAllBins =>
        /\ out.kind = "return"
        /\ out.value.total_volume = args[1] * df[1].volume
        /\ \A i \in 1..Len(out.value.value_area) :
                FSub(out.value.value_area[i].range[2], out.value.value_area[i].range[1])
                    = Frac(df[1].high - df[1].low, args[1])

\* The strengths of the returned blocks never increase along the list.
StrengthNonIncreasing(blocks) ==
    \A i \in 1..(Len(blocks) - 1) : FLe(blocks[i + 1].strength, blocks[i].strength)

\* C14: detect_order_blocks returns every qualifying block of the lookback
\* slice, however many qualify, ordered by non-increasing strength.
C14_AllBlocksReturned ==
    (op = "detect_order_blocks" /\ Len(df) >= args[1] + OrderBlockMargin) =>
        /\ out.kind = "return"
        /\ StrengthNonIncreasing(out.value)
        /\ Len(out.value) = Len(QualifyingBlocks(df, args[1]))
        /\ \A i \in 1..Len(QualifyingBlocks(df, args[1])) :
                InSeq(QualifyingBlocks(df, args[1])[i], out.value)

\* C15: no two returned blocks, one bullish and one bearish, refer to the
\* same candle (the same timestamp).
C15_OneTypePerCandle ==
    (op = "detect_order_blocks" /\ out.kind = "return") =>
        \A i, j \in 1..Len(out.value) :
            out.value[i].timestamp = out.value[j].timestamp =>
                out.value[i].type = out.value[j].type

\* A result that holds bullish and bearish blocks, of different candles.
C15_Witness ==
    /\ op = "detect_order_blocks"
    /\ out.kind = "return"
    /\ \E i, j \in 1..Len(out.value) :
            /\ out.value[i].type = "bullish"
            /\ out.value[j].type = "bearish"
            /\ out.value[i].timestamp # out.value[j].timestamp

(***************************************************************************)
(* Two calls on one detector at the same time: detect_zones on one window  *)
(* and detect_order_blocks on another, each running in steps that may      *)
(* interleave in any order.  Here df, op, args and out hold one entry per  *)
(* call: the caller's window, the place the call has reached, its          *)
(* arguments, and its local variables (while running) or its outcome (when *)
(* done).  sensitivity is the detector's one field, read by both.          *)
(***************************************************************************)
MaxSharedLen == 2

SharedZoneCandles == {Candle(10, 13, 10, 11, 7), Candle(11, 12, 9, 10, 0)}

SharedZoneWindows == Windows(SharedZoneCandles, MaxSharedLen)

SharedZoneLookbacks == {1, DefaultZoneLookback}

\* Ten candles with a move at the eighth, the one candle that a lookback
\* of 5 leaves to scan; the move is followed by a higher close or not.
SharedBlockWindows ==
    {MoveWindow(10, 8, MoveCandle(52, 40), MoveCandle(c2, 10)) : c2 \in {50, 56}}

SharedBlockLookbacks == {5, 6}

SharedSensitivities == {Frac(1, 50), Frac(1, 4)}

Running == [kind |-> "running"]

\* The locals `locals` with the local variable `name` set to `value`.
SetLocal(locals, name, value) == (name :> value) @@ locals

InitShared ==
    /\ df \in [zones : SharedZoneWindows, blocks : SharedBlockWindows]
    /\ sensitivity \in SharedSensitivities
    /\ op = [zones |-> "idle", blocks |-> "idle"]
    /\ args = [zones |-> << >>, blocks |-> << >>]
    /\ out = [zones |-> NoCall, blocks |-> NoCall]

\* The call detect_zones(df, current_price, lookback) starts.
ZonesCall ==
    /\ op.zones = "idle"
    /\ \E current_price \in ZonePrices, lookback \in SharedZoneLookbacks :
            args' = [args EXCEPT !.zones = <<current_price, lookback>>]
    /\ op' = [op EXCEPT !.zones = "called"]
    /\ out' = [out EXCEPT !.zones = Running]
    /\ UNCHANGED <<df, sensitivity>>

\* Lines 258-261: the clamp and df_lookback = df.tail(lookback).copy().
ZonesWindow ==
    /\ op.zones = "called"
    /\ op' = [op EXCEPT !.zones = "window"]
    /\ out' = [out EXCEPT !.zones = SetLocal(@, "df_lookback",
                    tail(df.zones, ClampLookback(df.zones, args.zones[2])))]
    /\ UNCHANGED <<df, sensitivity, args>>

\* Lines 264-272: the three sources; an exception of detect_volume_profile
\* ends the call.
ZonesSources ==
    /\ op.zones = "window"
    /\ LET volume_profile == detect_volume_profile(out.zones.df_lookback, DefaultNumBins)
       IN  IF volume_profile.kind = "raise"
           THEN /\ op' = [op EXCEPT !.zones = "done"]
                /\ out' = [out EXCEPT !.zones = volume_profile]
           ELSE /\ op' = [op EXCEPT !.zones = "sources"]
                /\ out' = [out EXCEPT !.zones =
                        SetLocal(SetLocal(SetLocal(@,
                            "fractals", detect_fractals(out.zones.df_lookback,
                                            DefaultLeftBars, DefaultRightBars)),
                            "pivots", [method \in PivotMethods |->
                                        detect_pivot_points(out.zones.df_lookback, method)]),
                            "volume_profile", volume_profile)]
    /\ UNCHANGED <<df, sensitivity, args>>

\* Lines 275-306: the two pools; pivots_standard['s1'] raises KeyError when
\* the pivots are the empty dict.
ZonesPools ==
    /\ op.zones = "sources"
    /\ IF out.zones.pivots["standard"].value = Empty
       THEN /\ op' = [op EXCEPT !.zones = "done"]
            /\ out' = [out EXCEPT !.zones = Raise("KeyError")]
       ELSE /\ op' = [op EXCEPT !.zones = "pools"]
            /\ out' = [out EXCEPT !.zones =
                    SetLocal(SetLocal(@,
                        "support_below", SupportPool(out.zones.fractals, out.zones.pivots,
                            out.zones.volume_profile.value, args.zones[1])),
                        "resistance_above", ResistancePool(out.zones.fractals, out.zones.pivots,
                            out.zones.volume_profile.value, args.zones[1]))]
    /\ UNCHANGED <<df, sensitivity, args>>

\* Line 227 storing the eps it computes into the detector's field.
ZonesClusterSupport_stores_eps ==
    /\ op.zones = "pools"
    /\ LET clustered_support == cluster_levels(sensitivity, out.zones.support_below, None)
       IN  IF clustered_support.kind = "raise"
           THEN /\ op' = [op EXCEPT !.zones = "done"]
                /\ out' = [out EXCEPT !.zones = clustered_support]
                /\ UNCHANGED sensitivity
           ELSE /\ op' = [op EXCEPT !.zones = "support"]
                /\ out' = [out EXCEPT !.zones =
                        SetLocal(@, "clustered_support", clustered_support)]
                /\ sensitivity' =
                        IF Len(out.zones.support_below) < 2 THEN sensitivity
                        ELSE FMul(FSub(FSeqMax(out.zones.support_below),
                                       FSeqMin(out.zones.support_below)), sensitivity)
    /\ UNCHANGED <<df, args>>

\* Line 308: clustered_support = self.cluster_levels(support_below), which
\* reads self.sensitivity.
ZonesClusterSupport ==
    /\ op.zones = "pools"
    /\ LET clustered_support == cluster_levels(sensitivity, out.zones.support_below, None)
       IN  IF clustered_support.kind = "raise"
           THEN /\ op' = [op EXCEPT !.zones = "done"]
                /\ out' = [out EXCEPT !.zones = clustered_support]
           ELSE /\ op' = [op EXCEPT !.zones = "support"]
                /\ out' = [out EXCEPT !.zones =
                        SetLocal(@, "clustered_support", clustered_support)]
    /\ UNCHANGED <<df, sensitivity, args>>

\* Line 309: clustered_resistance = self.cluster_levels(resistance_above).
ZonesClusterResistance ==
    /\ op.zones = "support"
    /\ LET clustered_resistance ==
            cluster_levels(sensitivity, out.zones.resistance_above, None)
       IN  IF clustered_resistance.kind = "raise"
           THEN /\ op' = [op EXCEPT !.zones = "done"]
                /\ out' = [out EXCEPT !.zones = clustered_resistance]
           ELSE /\ op' = [op EXCEPT !.zones = "resistance"]
                /\ out' = [out EXCEPT !.zones =
                        SetLocal(@, "clustered_resistance", clustered_resistance)]
    /\ UNCHANGED <<df, sensitivity, args>>

\* Lines 312-333: the sorts, the two _calculate_zone_strength calls (which
\* read self.sensitivity) and the return.
ZonesReturn ==
    /\ op.zones = "resistance"
    /\ op' = [op EXCEPT !.zones = "done"]
    /\ out' = [out EXCEPT !.zones =
            ZonesResult(sensitivity, out.zones.df_lookback, args.zones[1],
                out.zones.pivots, out.zones.volume_profile.value,
                out.zones.clustered_support, out.zones.clustered_resistance)]
    /\ UNCHANGED <<df, sensitivity, args>>

\* The call detect_order_blocks(df, lookback) starts.
BlocksCall ==
    /\ op.blocks = "idle"
    /\ \E lookback \in SharedBlockLookbacks :
            args' = [args EXCEPT !.blocks = <<lookback>>]
    /\ op' = [op EXCEPT !.blocks = "called"]
    /\ out' = [out EXCEPT !.blocks = Running]
    /\ UNCHANGED <<df, sensitivity>>

\* Lines 391-394: the length guard and df_lookback = df.tail(lookback).copy().
BlocksWindow ==
    /\ op.blocks = "called"
    /\ IF Len(df.blocks) < args.blocks[1] + OrderBlockMargin
       THEN /\ op' = [op EXCEPT !.blocks = "done"]
            /\ out' = [out EXCEPT !.blocks = Return(<< >>)]
       ELSE /\ op' = [op EXCEPT !.blocks = "window"]
            /\ out' = [out EXCEPT !.blocks =
                    SetLocal(@, "df_lookback", tail(df.blocks, args.blocks[1]))]
    /\ UNCHANGED <<df, sensitivity, args>>

\* Lines 395-426: the scan of the slice.
BlocksScan ==
    /\ op.blocks = "window"
    /\ op' = [op EXCEPT !.blocks = "scanned"]
    /\ out' = [out EXCEPT !.blocks =
            SetLocal(@, "order_blocks", ScanBlocks(df.blocks, out.blocks.df_lookback))]
    /\ UNCHANGED <<df, sensitivity, args>>

\* Lines 429-432: the sort and the return of the first ten.
BlocksReturn ==
    /\ op.blocks = "scanned"
    /\ op' = [op EXCEPT !.blocks = "done"]
    /\ out' = [out EXCEPT !.blocks =
            Return(Take(SortByStrength(out.blocks.order_blocks), OrderBlocksCap))]
    /\ UNCHANGED <<df, sensitivity, args>>

NextShared ==
    \/ ZonesCall \/ ZonesWindow \/ ZonesSources \/ ZonesPools
    \/ ZonesClusterSupport \/ ZonesClusterResistance \/ ZonesReturn
    \/ BlocksCall \/ BlocksWindow \/ BlocksScan \/ BlocksReturn

SpecShared == InitShared /\ [][NextShared]_vars

\* What each finished call returned is what it returns when run alone.
ResultsAsAlone ==
    /\ op.zones = "done" =>
            out.zones = detect_zones(sensitivity, df.zones, args.zones[1], args.zones[2])
    /\ op.blocks = "done" =>
            out.blocks = detect_order_blocks(df.blocks, args.blocks[1])

\* C16: under every interleaving of a detect_zones call and a
\* detect_order_blocks call on one detector, each call returns what it
\* returns when run alone, and no step writes the detector's field or a
\* caller's window.
C16_CallsIsolated ==
    /\ []ResultsAsAlone
    /\ [][sensitivity' = sensitivity /\ df' = df]_vars

\* detect_zones has returned zones while detect_order_blocks, started
\* before that, is still in the middle of its scan.
C16_Witness ==
    /\ op.zones = "done"
    /\ out.zones.kind = "return"
    /\ Len(out.zones.value.support) > 0
    /\ op.blocks = "window"

\* C17: detect_order_blocks called with lookback <= 0 fails with an
\* invalid-argument error (ValueError) and never returns a normal result;
\* likewise detect_zones with lookback <= 0 and detect_volume_profile with
\* num_bins <= 0.
C17_NonPositiveRejected ==
    (op = "detect_order_blocks" /\ args[1] <= 0) => out = Raise("ValueError")

\* Every candle of the window has volume 0.
AllVolumeZero(w) == \A i \in 1..Len(w) : w[i].volume = 0

\* The profile that carries no signal.
NoSignalProfile == [poc |-> None, value_area |-> << >>, total_volume |-> 0]

\* C18: for a non-empty window in which every candle has volume 0,
\* detect_volume_profile (with at least one bin asked for) returns the
\* no-signal profile and does not raise.
C18_ZeroVolumeGuarded ==
    (op = "detect_volume_profile" /\ Len(df) > 0 /\ AllVolumeZero(df) /\ args[1] >= 1) =>
        out = Return(NoSignalProfile)

\* Candle i has a high no lower than the high of every other candle that
\* exists at most `bars` positions before or after it.
HighestAround(w, i, bars) ==
    \A j \in 1..Len(w) : (j # i /\ j >= i - bars /\ j <= i + bars) => w[i].high >= w[j].high

\* Candle i has a low no higher than the low of every such candle.
LowestAround(w, i, bars) ==
    \A j \in 1..Len(w) : (j # i /\ j >= i - bars /\ j <= i + bars) => w[i].low <= w[j].low

DocumentedLevels(method, H, L, C) ==
    LET P == FDivI(FAdd(FAdd(H, L), C), 3)
        R == FSub(H, L)
    IN  IF method = "standard"
        THEN [pivot |-> P,
              r1 |-> FSub(FMul(I(2), P), L), s1 |-> FSub(FMul(I(2), P), H),
              r2 |-> FAdd(P, R),             s2 |-> FSub(P, R),
              r3 |-> FAdd(H, FMul(I(2), FSub(P, L))),
              s3 |-> FSub(L, FMul(I(2), FSub(H, P))),
              method |-> method]
        ELSE IF method = "fibonacci"
        THEN [pivot |-> P,
              r1 |-> FAdd(P, FMul(Frac(382, 1000), R)), s1 |-> FSub(P, FMul(Frac(382, 1000), R)),
              r2 |-> FAdd(P, FMul(Frac(618, 1000), R)), s2 |-> FSub(P, FMul(Frac(618, 1000), R)),
              r3 |-> FAdd(P, R),                        s3 |-> FSub(P, R),
              method |-> method]
        ELSE [pivot |-> P,
              r1 |-> FAdd(C, FDivI(FMul(R, Frac(11, 10)), 12)),
              s1 |-> FSub(C, FDivI(FMul(R, Frac(11, 10)), 12)),
              r2 |-> FAdd(C, FDivI(FMul(R, Frac(11, 10)), 6)),
              s2 |-> FSub(C, FDivI(FMul(R, Frac(11, 10)), 6)),
              r3 |-> FAdd(C, FDivI(FMul(R, Frac(11, 10)), 4)),
              s3 |-> FSub(C, FDivI(FMul(R, Frac(11, 10)), 4)),
              method |-> method]

\* C20: for every non-empty window and each of the three methods,
\* detect_pivot_points returns the seven levels of the documented formulas
\* applied to the high, low and close of the last candle only, so that the
\* window of the last candle alone gives the same result; the candle
\* (H=152, L=150, C=151) gives pivot 151, r1 152, s1 150 for the standard
\* method.
C20_LevelsOfLastCandle ==
    (op = "detect_pivot_points" /\ args[1] \in PivotMethods /\ Len(df) > 0) =>
        /\ out = Return(DocumentedLevels(args[1], I(Last(df).high), I(Last(df).low),
                                         I(Last(df).close)))
        /\ out = detect_pivot_points(<<Last(df)>>, args[1])
        /\ (args[1] = "standard" /\ Last(df) = ScenarioCandle) =>
            /\ out.value.pivot = I(151)
            /\ out.value.r1 = I(152)
            /\ out.value.s1 = I(150)

\* A standard call on a window that ends with the candle (H=152, L=150,
\* C=151) after a different candle, with pivot 151, r1 152, s1 150.
C20_Witness ==
    /\ PivotCall("standard")
    /\ Len(df) = 2
    /\ df[1] # ScenarioCandle
    /\ df[2] = ScenarioCandle
    /\ out.kind = "return"
    /\ out.value.pivot = I(151)
    /\ out.value.r1 = I(152)
    /\ out.value.s1 = I(150)

\* All bins of the window's profile that carry volume (lines 154-174).
ProfileBins(w, num_bins) ==
    BinVolumes(w, linspace(SeqMin(Column(w, "low")), SeqMax(Column(w, "high")), num_bins))

\* C21: in every profile returned for a window with some positive volume,
\* no bin with zero volume is kept, value_area is non-empty, has at most 10
\* bins and is in non-increasing order of volume, poc is its first bin, and
\* poc's volume is >= the volume of every bin of the profile.
C21_ProfileShape ==
    (ProfileReturned /\ ~AllVolumeZero(df)) =>
        /\ out.value.poc.volume > 0
        /\ \A i \in 1..Len(out.value.value_area) : out.value.value_area[i].volume > 0
        /\ Len(out.value.value_area) >= 1
        /\ Len(out.value.value_area) <= 10
        /\ \A i \in 1..(Len(out.value.value_area) - 1) :
                out.value.value_area[i].volume >= out.value.value_area[i + 1].volume
        /\ out.value.poc = out.value.value_area[1]
        /\ \A i \in 1..Len(ProfileBins(df, args[1])) :
                out.value.poc.volume >= ProfileBins(df, args[1])[i].volume

\* A profile of more than ten bins with volume, of unequal volumes, whose
\* value area is cut at ten.
C21_Witness ==
    /\ ProfileReturned
    /\ Len(ProfileBins(df, args[1])) > 10
    /\ Len(out.value.value_area) = 10
    /\ out.value.value_area[1].volume > out.value.value_area[10].volume

\* Lines 225-227: the eps derived from the levels and the sensitivity.
DerivedEps(self, levels) == FMul(FSub(FSeqMax(levels), FSeqMin(levels)), self)

\* The greedy merge over the ascending values `sorted`: the positions at
\* which a cluster starts, i.e. the first and every one that is more than
\* eps above the value before it.
GreedyStarts(sorted, eps) ==
    SetToSeq({i \in 1..Len(sorted) : i = 1 \/ FLt(eps, FSub(sorted[i], sorted[i - 1]))})

\* The arithmetic means of the greedy clusters that start at `starts`,
\* lowest cluster first.
GreedyMeans(sorted, starts) ==
    Eager([k \in 1..Len(starts) |->
        LET last == IF k = Len(starts) THEN Len(sorted) ELSE starts[k + 1] - 1
        IN  FDivI(FSumRange(sorted, starts[k], last), last - starts[k] + 1)])

GreedyCentroids(sorted, eps) == GreedyMeans(sorted, GreedyStarts(sorted, eps))

\* The greedy cluster of the value x: the last start whose value is <= x.
GreedyClusterOf(sorted, starts, x) ==
    Cardinality({k \in 1..Len(starts) : FLe(sorted[starts[k]], x)})

\* Two levels carry the same label iff they are in the same greedy cluster.
SameClusters(labels, greedy) ==
    \A i, j \in 1..Len(labels) : (labels[i] = labels[j]) <=> (greedy[i] = greedy[j])

LabelsAreGreedy(levels, labels, sorted, starts) ==
    SameClusters(labels,
        Eager([i \in 1..Len(levels) |-> GreedyClusterOf(sorted, starts, levels[i])]))

LabelsAgree(levels, sorted, eps) ==
    LabelsAreGreedy(levels, DBSCAN_labels(levels, eps), sorted, GreedyStarts(sorted, eps))

ClusterCallWithEps ==
    /\ op = "cluster_levels"
    /\ Len(args[1]) >= 2
    /\ FLt(I(0), DerivedEps(sensitivity, args[1]))

\* C22: for every list of two or more levels with eps > 0 the clusters of
\* cluster_levels are exactly those of the greedy merge (sort, start a new
\* cluster when next - prev > eps): two levels carry the same label iff they
\* are in the same greedy cluster, every level carries one label, and the
\* output is the ascending list of the clusters' arithmetic means.
C22_GreedyMergeSame ==
    ClusterCallWithEps =>
        /\ out = Return(GreedyCentroids(SortLevels(args[1], FALSE),
                                        DerivedEps(sensitivity, args[1])))
        /\ LabelsAgree(args[1], SortLevels(args[1], FALSE), DerivedEps(sensitivity, args[1]))
        /\ \A i \in 1..(Len(out.value) - 1) : FLt(out.value[i], out.value[i + 1])

\* Levels i and j are more than eps apart and carry the same label.
ChainedPair(levels, labels, eps) ==
    \E i, j \in 1..Len(levels) :
        FLt(eps, FSub(levels[i], levels[j])) /\ labels[i] = labels[j]

\* An unsorted list whose lowest and highest levels are more than eps apart
\* and yet end in one cluster, linked through a level between them, next to
\* a second cluster.
C22_Witness ==
    /\ ClusterCallWithEps
    /\ out.kind = "return"
    /\ Len(out.value) = 2
    /\ FLt(args[1][2], args[1][1])
    /\ ChainedPair(args[1], DBSCAN_labels(args[1], DerivedEps(sensitivity, args[1])),
                   DerivedEps(sensitivity, args[1]))

\* Lines 308-309 for the three sources: the centroids of the two sides
\* before they are sorted and cut.
CentroidsOfSources(self, fractals, pivots, vp, current_price) ==
    [support    |-> cluster_levels(self,
                        SupportPool(fractals, pivots, vp, current_price), None).value,
     resistance |-> cluster_levels(self,
                        ResistancePool(fractals, pivots, vp, current_price), None).value]

CentroidsOfWindow(self, df_lookback, current_price) ==
    CentroidsOfSources(self,
        detect_fractals(df_lookback, DefaultLeftBars, DefaultRightBars),
        [method \in PivotMethods |-> detect_pivot_points(df_lookback, method)],
        detect_volume_profile(df_lookback, DefaultNumBins).value,
        current_price)

\* The centroids of a detect_zones call that returned.
Centroids(self, w, current_price, lookback) ==
    CentroidsOfWindow(self, tail(w, ClampLookback(w, lookback)), current_price)

\* The distances of the centroids from the price.
Distances(centroids, price) ==
    Eager([i \in 1..Len(centroids) |->
        FMax(FSub(centroids[i], price), FSub(price, centroids[i]))])

\* The zones are those of the centroids nearest to the price, at most ten
\* of them, in the order `nearest` (nearest first) gives.
ZonesAreNearest(zones, nearest) ==
    /\ Len(zones) = Min(Len(nearest), 10)
    /\ \A i \in 1..Len(zones) : zones[i].level = round2_price(nearest[i])

NearestKept(zones, centroids, price) ==
    \A nearest \in {SortStable(centroids, Distances(centroids, price), FALSE)} :
        ZonesAreNearest(zones, nearest)

SidesNearestKept(result, centroids, price) ==
    /\ NearestKept(result.support, centroids.support, price)
    /\ NearestKept(result.resistance, centroids.resistance, price)

\* C23: detect_zones returns at most 10 support zones and at most 10
\* resistance zones, nearest to current_price first: support levels are in
\* non-increasing order, resistance levels in non-decreasing order, and the
\* zones kept on a side are those of the (at most 10) centroids closest to
\* current_price.
C23_NearestTenKept ==
    ZonesReturned =>
        /\ Len(out.value.support) <= 10
        /\ Len(out.value.resistance) <= 10
        /\ \A i \in 1..(Len(out.value.support) - 1) :
                FLe(out.value.support[i + 1].level, out.value.support[i].level)
        /\ \A i \in 1..(Len(out.value.resistance) - 1) :
                FLe(out.value.resistance[i].level, out.value.resistance[i + 1].level)
        /\ \A centroids \in {Centroids(sensitivity, df, args[1], args[2])} :
                SidesNearestKept(out.value, centroids, args[1])

\* A result with ten support zones out of more than ten centroids.
C23_Witness ==
    /\ ZonesReturned
    /\ Len(Centroids(sensitivity, df, args[1], args[2]).support) > 10
    /\ Len(out.value.support) = 10
    /\ FLt(out.value.support[10].level, out.value.support[1].level)

\* mean(volume over the slice).
MeanVolume(slice) == Frac(SeqSum(Column(slice, "volume")), Len(slice))

\* Candle i of the slice (counted from 1, i < Len(slice)) passes the
\* bullish test: next.close > close * 1.02, close > open and
\* volume > 1.5 * mean volume.
IsBullish(slice, i) ==
    /\ FLt(FMul(I(slice[i].close), Frac(102, 100)), I(slice[i + 1].close))
    /\ slice[i].close > slice[i].open
    /\ FLt(FMul(Frac(3, 2), MeanVolume(slice)), I(slice[i].volume))

\* Candle i of the slice passes the bearish test.
IsBearish(slice, i) ==
    /\ FLt(I(slice[i + 1].close), FMul(I(slice[i].close), Frac(98, 100)))
    /\ slice[i].close < slice[i].open
    /\ FLt(FMul(Frac(3, 2), MeanVolume(slice)), I(slice[i].volume))

\* Some block of the list is of type `type` and comes from the candle at
\* position `timestamp` of the window.
HasBlock(blocks, type, timestamp) ==
    \E k \in 1..Len(blocks) : blocks[k].type = type /\ blocks[k].timestamp = timestamp

\* The candles of the slice counted from 0 as 2..len-3 (from 1: 3..len-2)
\* are classified by the two tests; `first` is the number of candles of the
\* window before the slice.
ClassifiedByTests(scanned, slice, first) ==
    \A i \in 3..(Len(slice) - 2) :
        /\ HasBlock(scanned, "bullish", first + i) <=> IsBullish(slice, i)
        /\ HasBlock(scanned, "bearish", first + i) <=> IsBearish(slice, i)

\* Every block comes from a candle 3..len-2 of the slice that passes the
\* test of the block's type, and has that candle's high and low.
BlocksFromTests(blocks, slice, first) ==
    \A k \in 1..Len(blocks) :
        /\ blocks[k].timestamp - first \in 3..(Len(slice) - 2)
        /\ blocks[k].top = slice[blocks[k].timestamp - first].high
        /\ blocks[k].bottom = slice[blocks[k].timestamp - first].low
        /\ blocks[k].type = "bullish" => IsBullish(slice, blocks[k].timestamp - first)
        /\ blocks[k].type = "bearish" => IsBearish(slice, blocks[k].timestamp - first)
        /\ blocks[k].type \in {"bullish", "bearish"}

\* The returned blocks are blocks of the scan, all of them when the scan
\* found at most ten.
ReturnedFromScan(returned, scanned) ==
    /\ \A k \in 1..Len(returned) : InSeq(returned[k], scanned)
    /\ Len(scanned) <= OrderBlocksCap =>
            \A k \in 1..Len(scanned) : InSeq(scanned[k], returned)

BlocksAsClaimed(returned, scanned, slice, first) ==
    /\ ClassifiedByTests(scanned, slice, first)
    /\ BlocksFromTests(scanned, slice, first)
    /\ BlocksFromTests(returned, slice, first)
    /\ ReturnedFromScan(returned, scanned)

BlocksAsClaimedFor(returned, w, slice) ==
    BlocksAsClaimed(returned, ScanBlocks(w, slice), slice, Len(w) - Len(slice))

RelativeMove(w, timestamp) ==
    Frac(Abs(w[timestamp + 1].close - w[timestamp].close), w[timestamp].close)

\* C25: every order block returned for candles with close > 0 has strength
\* in [0, 1], equal to 10 * min(|next.close - close| / close, 0.1);
\* strength is 1 exactly when the move to the next close is at least 10 %
\* of close.
C25_StrengthOfMove ==
    (op = "detect_order_blocks" /\ out.kind = "return") =>
        \A k \in 1..Len(out.value) :
            /\ df[out.value[k].timestamp].close > 0
            /\ FLe(I(0), out.value[k].strength)
            /\ FLe(out.value[k].strength, I(1))
            /\ out.value[k].strength =
                    FMul(I(10), FMin(RelativeMove(df, out.value[k].timestamp), Frac(1, 10)))
            /\ out.value[k].strength = I(1)
                    <=> FLe(Frac(1, 10), RelativeMove(df, out.value[k].timestamp))

\* A block of a move of exactly 10 %, with strength 1.
C25_Witness ==
    /\ op = "detect_order_blocks"
    /\ out.kind = "return"
    /\ \E k \in 1..Len(out.value) :
        /\ out.value[k].strength = I(1)
        /\ RelativeMove(df, out.value[k].timestamp) = Frac(1, 10)

\* tolerance = mean(close over the window) * sensitivity.
Tolerance(self, w) == FMul(Frac(SeqSum(Column(w, "close")), Len(w)), self)

\* The number of candles of w whose value in column `name` lies in the
\* closed interval [centroid - tolerance, centroid + tolerance].
CandlesWithin(w, name, centroid, tolerance) ==
    Cardinality({c \in 1..Len(w) :
        /\ FLe(FSub(centroid, tolerance), I(w[c][name]))
        /\ FLe(I(w[c][name]), FAdd(centroid, tolerance))})

\* Each zone's touches is the count for its centroid, the k-th nearest.
TouchesCounted(zones, nearest, w, name, tolerance) ==
    \A k \in 1..Len(zones) :
        /\ zones[k].touches = CandlesWithin(w, name, nearest[k], tolerance)
        /\ zones[k].touches >= 0
        /\ zones[k].touches <= Len(w)

SideTouchesCounted(zones, centroids, price, w, name, tolerance) ==
    \A nearest \in {SortStable(centroids, Distances(centroids, price), FALSE)} :
        TouchesCounted(zones, nearest, w, name, tolerance)

AllTouchesCounted(self, result, centroids, price, w) ==
    \A tolerance \in {Tolerance(self, w)} :
        /\ SideTouchesCounted(result.support, centroids.support, price, w, "low", tolerance)
        /\ SideTouchesCounted(result.resistance, centroids.resistance, price, w, "high",
                              tolerance)

\* C26: for each centroid scored by _calculate_zone_strength, touches is the
\* number of candles of the lookback window whose low (support) or high
\* (resistance) lies in [centroid - tolerance, centroid + tolerance], with
\* tolerance = mean(close over the window) * sensitivity and centroid the
\* unrounded cluster mean; hence 0 <= touches <= len(window).
C26_TouchesCounted ==
    ZonesReturned =>
        \A centroids \in {Centroids(sensitivity, df, args[1], args[2])} :
            \A w \in {tail(df, ClampLookback(df, args[2]))} :
                AllTouchesCounted(sensitivity, out.value, centroids, args[1], w)

\* Some zone's count taken with its rounded level differs from its touches.
RoundedCountDiffers(zones, w, name, tolerance) ==
    \E k \in 1..Len(zones) :
        zones[k].touches # CandlesWithin(w, name, zones[k].level, tolerance)

\* A zone whose touches would differ if counted around its rounded level.
C26_Witness ==
    /\ ZonesReturned
    /\ \E w \in {tail(df, ClampLookback(df, args[2]))} :
        \E tolerance \in {Tolerance(sensitivity, w)} :
            \/ RoundedCountDiffers(out.value.support, w, "low", tolerance)
            \/ RoundedCountDiffers(out.value.resistance, w, "high", tolerance)

\* All levels of the list are the same value.
AllEqual(levels) == \A i \in 1..Len(levels) : levels[i] = levels[1]

\* C27: cluster_levels on two or more levels that are all equal (so that
\* the derived eps is 0) returns the single centroid equal to that value
\* and does not raise.
C27_EqualLevelsOneCentroid ==
    (op = "cluster_levels" /\ Len(args[1]) >= 2 /\ AllEqual(args[1])) =>
        out = Return(<<args[1][1]>>)

\* The window with one more candle put before it.
Preceded(w, c) == <<c>> \o w

\* C28: detect_zones(window, current_price, lookback) depends only on the
\* last min(lookback, len(window)) candles: the result is that of those
\* candles alone, and a window with the same last candles and another
\* candle before them gives the same result, for the same current_price
\* and sensitivity.
C28_OnlyLookbackCounts ==
    op = "detect_zones" =>
        /\ out = detect_zones(sensitivity, tail(df, Min(args[2], Len(df))), args[1], args[2])
        /\ Len(df) >= args[2] =>
                \A c \in ZoneCandles :
                    out = detect_zones(sensitivity, Preceded(df, c), args[1], args[2])

\* A call with a lookback of 3 on a longer window whose earlier candles
\* differ from its last three, returning zones.
C28_Witness ==
    /\ ZonesReturned
    /\ args[2] = 3
    /\ Len(df) > 3
    /\ df[1] # df[Len(df)]
    /\ Len(out.value.support) > 0

(***************************************************************************)
(* ConnectionManager of api/endpoints/websocket.py: one broadcast on one   *)
(* channel while other coroutines connect and disconnect clients.  A       *)
(* coroutine runs without interruption between its await points, so the    *)
(* other coroutines act only while the broadcast awaits send_text.  Here   *)
(* df is self.active_connections[channel] (the empty list when the channel *)
(* has no entry), sensitivity the set of connections whose send_text       *)
(* raises, op the place the broadcast has reached, args its locals, and    *)
(* out what has been observed: how often send_text was called per          *)
(* connection, the connections whose send failed, those registered ever    *)
(* since the broadcast began, and every connection that ever registered.   *)
(***************************************************************************)
MaxConnections == 3

Connections == 1..MaxConnections

\* The lists of distinct connections.
ConnectionLists ==
    {l \in UNION {[1..n -> Connections] : n \in 0..MaxConnections} :
        \A i, j \in 1..Len(l) : i # j => l[i] # l[j]}

Members(list) == {list[i] : i \in 1..Len(list)}

\* list.remove(x): the list without the first x.
Remove(list, x) ==
    LET at == CHOOSE i \in 1..Len(list) : list[i] = x /\ \A j \in 1..(i - 1) : list[j] # x
    IN  [i \in 1..(Len(list) - 1) |-> IF i < at THEN list[i] ELSE list[i + 1]]

\* Lines 27-33: disconnect(websocket, channel) on the channel's list.
disconnect(list, websocket) ==
    IF websocket \in Members(list) THEN Remove(list, websocket) ELSE list

\* Lines 50-51: disconnect for each of `disconnected`, from position k on.
RECURSIVE DisconnectAll(_, _, _)
DisconnectAll(list, disconnected, k) ==
    IF k > Len(disconnected) THEN list
    ELSE DisconnectAll(disconnect(list, disconnected[k]), disconnected, k + 1)

InitBroadcast ==
    /\ df \in ConnectionLists
    /\ sensitivity = {}
    /\ op = "idle"
    /\ args = [index |-> 0, connection |-> 0, disconnected |-> << >>, attached |-> TRUE]
    /\ out = [attempts |-> [c \in Connections |-> 0], failed |-> {},
              stable |-> {}, seen |-> Members(df)]

\* The other coroutines run before the broadcast, after it, and while it
\* awaits send_text.
OthersMayRun == op \in {"idle", "sending", "done"}

\* Lines 20-25: a new client is accepted and appended to the channel's
\* list; if the channel had lost its entry the list is a new one, which a
\* broadcast that is iterating the old list does not see.
Connect ==
    /\ OthersMayRun
    /\ \E websocket \in Connections \ out.seen :
        /\ df' = Append(df, websocket)
        /\ out' = [out EXCEPT !.seen = @ \cup {websocket}]
    /\ args' = IF df = << >> THEN [args EXCEPT !.attached = FALSE] ELSE args
    /\ UNCHANGED <<sensitivity, op>>

\* Lines 27-33, called by a client's own handler (lines 116-121).
Disconnect ==
    /\ OthersMayRun
    /\ \E websocket \in Members(df) :
        /\ df' = disconnect(df, websocket)
        /\ out' = [out EXCEPT !.stable = @ \ {websocket}]
    /\ UNCHANGED <<sensitivity, op, args>>

\* A client's socket closes: send_text on it raises from now on.
SocketCloses ==
    /\ OthersMayRun
    /\ \E websocket \in out.seen \ sensitivity : sensitivity' = sensitivity \cup {websocket}
    /\ UNCHANGED <<df, op, args, out>>

\* Lines 41-45: broadcast finds the channel, starts the loop over its list
\* and awaits the first send_text; without the channel it returns.
BroadcastStarts ==
    /\ op = "idle"
    /\ IF df = << >>
       THEN /\ op' = "done"
            /\ UNCHANGED <<args, out>>
       ELSE /\ op' = "sending"
            /\ args' = [index |-> 1, connection |-> df[1], disconnected |-> << >>,
                        attached |-> TRUE]
            /\ out' = [out EXCEPT !.stable = Members(df),
                                  !.attempts[df[1]] = @ + 1]
    /\ UNCHANGED <<df, sensitivity>>

\* Lines 43-51 from the return of one send_text to the await of the next:
\* a failed send is noted, the list iterator moves to the next position
\* of the list as it is now, and when the list is exhausted the noted
\* connections are disconnected and broadcast returns.
SendReturns ==
    /\ op = "sending"
    /\ LET failed == args.connection \in sensitivity
           disconnected == IF failed THEN Append(args.disconnected, args.connection)
                           ELSE args.disconnected
           list == IF args.attached THEN df ELSE << >>
       IN  IF args.index < Len(list)
           THEN /\ op' = "sending"
                /\ args' = [args EXCEPT !.index = @ + 1,
                                        !.connection = list[args.index + 1],
                                        !.disconnected = disconnected]
                /\ out' = [out EXCEPT
                            !.failed = IF failed THEN @ \cup {args.connection} ELSE @,
                            !.attempts[list[args.index + 1]] = @ + 1]
                /\ df' = df
           ELSE /\ op' = "done"
                /\ args' = [args EXCEPT !.disconnected = disconnected]
                /\ out' = [out EXCEPT
                            !.failed = IF failed THEN @ \cup {args.connection} ELSE @,
                            !.stable = @ \ Members(disconnected)]
                /\ df' = DisconnectAll(df, disconnected, 1)
    /\ UNCHANGED sensitivity

NextBroadcast ==
    Connect \/ Disconnect \/ SocketCloses \/ BroadcastStarts \/ SendReturns

SpecBroadcast == InitBroadcast /\ [][NextBroadcast]_vars

\* C29: under every interleaving with connect and disconnect calls of
\* other coroutines at the await points of broadcast, each connection that
\* is registered in the channel from the start to the end of the broadcast
\* is sent the message exactly once, and the connections whose send
\* failed are not in the registry when broadcast returns.
C29_BroadcastReachesAll ==
    (op = "done" /\ args.index > 0) =>
        /\ \A c \in Members(args.disconnected) : c \notin Members(df)
        /\ \A c \in Connections :
            (c \in out.stable /\ c \in Members(df)) => out.attempts[c] = 1

(***************************************************************************)
(* The endpoints /support-resistance/{symbol} and /order-blocks/{symbol}   *)
(* of api/endpoints/analysis.py.  df is what the data source holds for the *)
(* symbol, op the endpoint requested, args whether the fetch itself fails, *)
(* and out the HTTP response.                                              *)
(***************************************************************************)
EndpointZoneLookback == 200

EndpointBlockLookback == 100

HTTPException(status_code, detail) ==
    [kind |-> "raise", error |-> "HTTPException", status_code |-> status_code,
     detail |-> detail]

\* The except clause of lines 243-244 and 284-285: `except Exception`
\* catches whatever the try block raised, HTTPException included, and
\* raises HTTPException(500).
ExceptException(outcome, detail) ==
    IF outcome.kind = "raise" THEN HTTPException(500, detail) ELSE outcome

\* Lines 230-241: the response built from the zones.
ZonesBody(zones, current_price) ==
    IF zones.kind = "raise" THEN zones
    ELSE Return([current_price |-> current_price,
                 support |-> zones.value.support,
                 resistance |-> zones.value.resistance,
                 pivots |-> zones.value.pivots,
                 poc |-> zones.value.volume_profile.poc,
                 value_area_count |-> Len(zones.value.volume_profile.value_area)])

\* Lines 214-241, the try block of get_support_resistance.
SupportResistanceTry(w, fetch_fails) ==
    IF fetch_fails THEN Raise("Exception")
    ELSE IF Len(w) = 0 THEN HTTPException(404, "No data found")
    ELSE ZonesBody(detect_zones(DefaultSensitivity, w, I(Last(w).close),
                                EndpointZoneLookback),
                   I(Last(w).close))

get_support_resistance(w, fetch_fails) ==
    ExceptException(SupportResistanceTry(w, fetch_fails), "Error detecting S/R")

\* Lines 276-282: the response built from the order blocks.
BlocksBody(order_blocks) ==
    IF order_blocks.kind = "raise" THEN order_blocks
    ELSE Return([order_blocks |-> order_blocks.value,
                 bullish_count |-> Cardinality({k \in 1..Len(order_blocks.value) :
                                        order_blocks.value[k].type = "bullish"}),
                 bearish_count |-> Cardinality({k \in 1..Len(order_blocks.value) :
                                        order_blocks.value[k].type = "bearish"})])

\* Lines 259-282, the try block of get_order_blocks.
OrderBlocksTry(w, fetch_fails) ==
    IF fetch_fails THEN Raise("Exception")
    ELSE IF Len(w) = 0 THEN HTTPException(404, "No data found")
    ELSE BlocksBody(detect_order_blocks(w, EndpointBlockLookback))

get_order_blocks(w, fetch_fails) ==
    ExceptException(OrderBlocksTry(w, fetch_fails), "Error detecting order blocks")

\* The response the framework sends: 200 with the returned body, or the
\* status and detail of the HTTPException.
Response(outcome) ==
    IF outcome.kind = "raise"
    THEN [status_code |-> outcome.status_code, detail |-> outcome.detail]
    ELSE [status_code |-> 200, body |-> outcome.value]

InitEndpoints ==
    /\ df \in ZoneWindows
    /\ sensitivity = DefaultSensitivity
    /\ Idle

GetSupportResistance ==
    /\ op = "none"
    /\ \E fetch_fails \in BOOLEAN :
        /\ op' = "get_support_resistance"
        /\ args' = <<fetch_fails>>
        /\ out' = Response(get_support_resistance(df, fetch_fails))
    /\ UNCHANGED <<df, sensitivity>>

GetOrderBlocks ==
    /\ op = "none"
    /\ \E fetch_fails \in BOOLEAN :
        /\ op' = "get_order_blocks"
        /\ args' = <<fetch_fails>>
        /\ out' = Response(get_order_blocks(df, fetch_fails))
    /\ UNCHANGED <<df, sensitivity>>

NextEndpoints == GetSupportResistance \/ GetOrderBlocks

SpecEndpoints == InitEndpoints /\ [][NextEndpoints]_vars

\* Detection itself raises for the request.
DetectionRaises ==
    /\ Len(df) > 0
    /\ \/ /\ op = "get_support_resistance"
          /\ detect_zones(DefaultSensitivity, df, I(Last(df).close),
                          EndpointZoneLookback).kind = "raise"
       \/ /\ op = "get_order_blocks"
          /\ detect_order_blocks(df, EndpointBlockLookback).kind = "raise"

\* C30: when the data source returns no candles for the symbol, both
\* endpoints answer with status 404 ('No data found'); status 500 is
\* produced only when fetching or detection itself raises.
C30_NoDataIs404 ==
    op \in {"get_support_resistance", "get_order_blocks"} =>
        /\ (~args[1] /\ Len(df) = 0) =>
                out.status_code = 404 /\ out.detail = "No data found"
        /\ out.status_code = 500 => (args[1] \/ DetectionRaises)

====
